---- MODULE Spec2Model ----
(***************************************************************************)
(* A model of the file-hosting backend of src/index.js: the Express        *)
(* handlers for upload, listing, download, delete, statistics and          *)
(* file-formats, the process-wide NodeCache they share, and the two        *)
(* external stores (the storage bucket and the Firestore collections).     *)
(*                                                                         *)
(* Every handler is an async function: it runs from one await to the next  *)
(* without interruption, and other requests run in between.  A request in  *)
(* flight occupies a slot of reqs; each action below is one such           *)
(* uninterrupted stretch of one handler.  An awaited external call either  *)
(* resolves (ok = TRUE) or rejects (ok = FALSE).                           *)
(*                                                                         *)
(* Strings are modelled by what the code does with them:                   *)
(*   - a JSON text is <<"json", value>>, a signed URL is <<"url", name>>;  *)
(*     JSON.parse accepts the first and throws on the second;              *)
(*   - a content type is the sequence of its "/"-separated segments;       *)
(*   - storageUsed, the result of toFixed(2), is the number of hundredths. *)
(* uploadDate is not modelled (no claim reads it).                         *)
(*                                                                         *)
(* sent is the response of the step that led to the state, so a state      *)
(* predicate on sent speaks of the moment right after that response.       *)
(*                                                                         *)
(* Spec runs every handler with MaxReqs requests in flight, from empty     *)
(* stores.  RaceSpec runs the handlers of the "files" collection with      *)
(* RaceReqs requests in flight.  ReadSpec runs the handlers that leave the *)
(* stores alone, over any initial stores.  FairSpec is Spec with fairness. *)
(***************************************************************************)
EXTENDS Integers, Sequences, FiniteSets, TLC

\* ---------------------------------------------------------------- bounds
\* Requests in flight at the same time: under Spec, and under RaceSpec.
MaxReqs == 1
RaceReqs == 2
\* Documents ever added to the "files" collection (ids 1..MaxDocs).
MaxDocs == 2
\* Files in one upload request.
MaxBatch == 1
\* Size of the external "downloads" collection, which the code only reads.
NumDownloads == 1
\* Notes the database ever holds.
MaxNotes == 2
\* Documents of the users collection.
MaxUsers == 2

\* ----------------------------------------------------------- input domains
\* File names a client may supply; one of them is also a report key.
FileNames == {"a.png", "files"}

\* multer's file.mimetype is what the client supplies: below a mapped type,
\* an unmapped type, and a malformed one without "/".
\* metadata.contentType of an object stored without a content type.
Absent == <<>>

\* An uploaded file: what bucket.file(..).save(buffer, {contentType}) stores.
\* The buffers are 5 MiB and 6 MiB long (0.0049 GB and 0.0059 GB).
Uploads == {[size |-> 5242880, contentType |-> <<"image", "png">>],
            [size |-> 6291456, contentType |-> <<"application", "x-unknown">>],
            [size |-> 6291456, contentType |-> <<"garbage">>]}

\* The requests the model's clients send to POST /api/upload: any number of
\* files and of names up to MaxBatch; where a file has a name, a png is
\* named "a.png" and any other file "files".
NamedFor(file) == IF file.contentType = <<"image", "png">> THEN "a.png" ELSE "files"

ReportKeys == {"files", "statistics", "file-formats"}

DocIds == 1..MaxDocs

\* ------------------------------------------------------------------ state
VARIABLES
    bucket,     \* storage: object name -> metadata, for the objects that exist
    filesColl,  \* Firestore "files": set of documents [id, fileName, fileURL]
    nextId,     \* the id the next added document gets (ids are never reused)
    downloads,  \* size of Firestore "downloads"
    cache,      \* NodeCache: key -> stored string, for the keys that are set
    notesColl,  \* MongoDB "notes": set of documents [id, title, text]
    nextNoteId, \* the _id the next saved note gets (ids are never reused)
    users,      \* Firestore "users": set of documents [id, username, password]
    reqs,       \* slot -> the request in flight there, or Idle
    sent        \* the response the latest step sent, if it sent one

vars == <<bucket, filesColl, nextId, downloads, notesColl, nextNoteId, users,
          cache, reqs, sent>>

Idle == [op |-> "idle"]

\* A handler's locals that no response carries but its log lines show.
NoLocals == [files |-> {}, failed |-> {}, totalUsedBytes |-> 0]

NoResponse == [op |-> "none", status |-> 0, body |-> <<"none">>, err |-> "none",
               locals |-> NoLocals]

EmptyMap == [k \in {} |-> 0]

\* ------------------------------------------------------- strings and JSON
\* fileRef.getSignedUrl(): a URL naming the object; it is not JSON text.
SignedUrl(fileName) == <<"url", fileName>>

\* JSON.stringify turns an undefined array element into null.
JSONvalue(x) ==
    IF x.type = "formats"
    THEN [x EXCEPT !.formats =
            [i \in 1..Len(x.formats) |->
                IF x.formats[i][1] = "undefined"
                THEN <<"null", x.formats[i][2]>> ELSE x.formats[i]]]
    ELSE x

JSONstringify(x) == <<"json", JSONvalue(x)>>

\* JSON.parse: the value of a JSON text; any other string throws SyntaxError.
JSONparses(s) == s[1] = "json"

JSONparse(s) == s[2]

\* res.status(..).send({message}) / res.status(..).json({error})
Message(m) == <<"json", [type |-> "message", message |-> m]>>

\* A response, with the kind of error the handler logged (console.error).
Response(op, status, body, err) ==
    [op |-> op, status |-> status, body |-> body, err |-> err, locals |-> NoLocals]

\* ------------------------------------------------------------ the cache
CacheHas(c, key) == key \in DOMAIN c

CacheSet(c, key, value) == [k \in DOMAIN c \cup {key} |-> IF k = key THEN value ELSE c[k]]

CacheDel(c, key) == [k \in DOMAIN c \ {key} |-> c[k]]

\* ------------------------------------------------------------ the slots
Slots == DOMAIN reqs

InFlight == {r \in Slots : reqs[r] # Idle}

Quiescent == InFlight = {}

\* A new request takes the lowest free slot.
FreeSlot(r) == /\ reqs[r] = Idle
               /\ \A s \in Slots : s < r => reqs[s] # Idle

\* The handler in slot r has sent its response and has nothing left to run.
Finish(r, resp) == /\ reqs' = [reqs EXCEPT ![r] = Idle]
                   /\ sent' = resp

\* The handler in slot r goes on to its next await.
Continue(r, q) == /\ reqs' = [reqs EXCEPT ![r] = q]
                  /\ sent' = NoResponse

\* A request answered before its first await: the slot stays free.
Answer(resp) == /\ sent' = resp
                /\ UNCHANGED reqs

UNCHANGED_stores ==
    UNCHANGED <<bucket, filesColl, nextId, downloads, notesColl, nextNoteId, users>>

\* ---------------------------------------------------------- GET /api/files
\* snapshot.docs.map(..): Firestore returns the documents in id order.
RECURSIVE ListingOf(_)
ListingOf(docs) ==
    IF docs = {} THEN <<>>
    ELSE LET d == CHOOSE x \in docs : \A y \in docs : x.id <= y.id
         IN  <<d>> \o ListingOf(docs \ {d})

FilesReport(docs) == [type |-> "files", files |-> ListingOf(docs)]

\* Lines 119-125: the cache check, then the call of db.collection("files").get().
GetFilesStart(r) ==
    /\ FreeSlot(r)
    /\ UNCHANGED_stores
    /\ UNCHANGED cache
    /\ IF CacheHas(cache, "files")
       THEN IF JSONparses(cache["files"])
            THEN Answer(Response("files", 200,
                                 JSONstringify(JSONparse(cache["files"])), "none"))
            ELSE Answer(Response("files", 500,
                                 Message("Failed to fetch files"), "parse"))
       ELSE Continue(r, [op |-> "files", pc |-> "query", docs |-> {}])

\* Line 125: Firestore runs the query and sends the snapshot, or the query
\* fails (lines 136-139).  The handler resumes only when the snapshot has
\* arrived, and other requests run in between.
GetFilesQuery(r, ok) ==
    /\ reqs[r].op = "files" /\ reqs[r].pc = "query"
    /\ UNCHANGED_stores
    /\ UNCHANGED cache
    /\ IF ok
       THEN Continue(r, [reqs[r] EXCEPT !.pc = "snapshot", !.docs = filesColl])
       ELSE Finish(r, Response("files", 500,
                              Message("Failed to fetch files"), "enumeration"))

\* Lines 126-135: the snapshot has arrived; the listing is cached and sent.
GetFilesSnapshot(r) ==
    /\ reqs[r].op = "files" /\ reqs[r].pc = "snapshot"
    /\ UNCHANGED_stores
    /\ cache' = CacheSet(cache, "files", JSONstringify(FilesReport(reqs[r].docs)))
    /\ Finish(r, Response("files", 200,
                          JSONstringify(FilesReport(reqs[r].docs)), "none"))

\* ----------------------------------------------------- GET /api/statistics
\* (totalUsedBytes / (1024 * 1024 * 1024)).toFixed(2), in hundredths: the
\* nearest hundredth, the larger one on a tie.
ToFixed2(totalUsedBytes) ==
    LET GB == 1024 * 1024 * 1024
        q  == (totalUsedBytes * 100) \div GB
        m  == (totalUsedBytes * 100) % GB
    IN  IF 2 * m >= GB THEN q + 1 ELSE q

\* Lines 236-239.
StatisticsReport(totalDownloads, totalUsedBytes, files) ==
    [type |-> "statistics", totalDownloads |-> totalDownloads,
     storageUsed |-> ToFixed2(totalUsedBytes), totalFiles |-> Cardinality(files)]

\* Lines 236-244: the statistics are cached and sent.
StatFinish(r, q) ==
    LET statistics == StatisticsReport(q.totalDownloads, q.totalUsedBytes, q.files)
    IN  /\ cache' = CacheSet(cache, "statistics", JSONstringify(statistics))
        /\ Finish(r, [Response("statistics", 200, JSONstringify(statistics),
                               IF q.failed = {} THEN "none" ELSE "metadata")
                      EXCEPT !.locals = [files |-> q.files, failed |-> q.failed,
                                         totalUsedBytes |-> q.totalUsedBytes]])

\* A catch block that caches the error it answers with.
StatFailCachesError(r, err) ==
    /\ cache' = CacheSet(cache, "statistics", Message("Failed to fetch statistics"))
    /\ Finish(r, Response("statistics", 500, Message("Failed to fetch statistics"), err))

\* Lines 245-248: the catch block.
StatFail(r, err) ==
    /\ UNCHANGED cache
    /\ Finish(r, Response("statistics", 500, Message("Failed to fetch statistics"), err))

\* Lines 202-208: the cache check, then the call of db.collection("downloads").get().
StatStart(r) ==
    /\ FreeSlot(r)
    /\ UNCHANGED_stores
    /\ UNCHANGED cache
    /\ IF CacheHas(cache, "statistics")
       THEN IF JSONparses(cache["statistics"])
            THEN Answer(Response("statistics", 200,
                                 JSONstringify(JSONparse(cache["statistics"])), "none"))
            ELSE Answer(Response("statistics", 500,
                                 Message("Failed to fetch statistics"), "parse"))
       ELSE Continue(r, [op |-> "statistics", pc |-> "downloads", totalDownloads |-> 0,
                         files |-> {}, pending |-> {}, failed |-> {},
                         totalUsedBytes |-> 0])

\* Lines 208-212: the downloads snapshot arrives; bucket.getFiles() is called.
StatDownloads(r, ok) ==
    /\ reqs[r].op = "statistics" /\ reqs[r].pc = "downloads"
    /\ UNCHANGED_stores
    /\ IF ok
       THEN /\ UNCHANGED cache
            /\ Continue(r, [reqs[r] EXCEPT !.pc = "getFiles",
                                           !.totalDownloads = downloads])
       ELSE StatFail(r, "enumeration")

\* Lines 212-216, 232-234: the file list arrives; one getMetadata() call per
\* file is issued, or none when the bucket is empty.
StatGetFiles(r, ok) ==
    /\ reqs[r].op = "statistics" /\ reqs[r].pc = "getFiles"
    /\ UNCHANGED_stores
    /\ IF ok
       THEN LET q == [reqs[r] EXCEPT !.pc = "metadata", !.files = DOMAIN bucket,
                                    !.pending = DOMAIN bucket]
            IN  IF q.files = {}
                THEN StatFinish(r, q)
                ELSE /\ UNCHANGED cache
                     /\ Continue(r, q)
       ELSE StatFail(r, "enumeration")

\* Lines 217-229: the metadata of file f arrives, or the call fails (as it
\* does when the object is gone); the failure is caught and logged.  Every
\* stored object has a size, so the branch without one (line 222) is not taken.
\* A task that adds to the total it read before its await.
StatMetadataTaskLostUpdate(q, f, ok) ==
    IF ok /\ f \in DOMAIN bucket
    THEN [q EXCEPT !.pending = @ \ {f},
                   !.totalUsedBytes = bucket[f].size]
    ELSE [q EXCEPT !.pending = @ \ {f},
                   !.failed = @ \cup {f}]

StatMetadataTask(q, f, ok) ==
    IF ok /\ f \in DOMAIN bucket
    THEN [q EXCEPT !.pending = @ \ {f},
                   !.totalUsedBytes = @ + bucket[f].size]
    ELSE [q EXCEPT !.pending = @ \ {f},
                   !.failed = @ \cup {f}]

StatMetadata(r, f, ok) ==
    /\ reqs[r].op = "statistics" /\ reqs[r].pc = "metadata"
    /\ f \in reqs[r].pending
    /\ UNCHANGED_stores
    /\ LET q == StatMetadataTask(reqs[r], f, ok)
       IN  IF q.pending = {}
           THEN StatFinish(r, q)
           ELSE /\ UNCHANGED cache
                /\ Continue(r, q)

\* --------------------------------------------------- GET /api/file-formats
\* mimeTypes.js: the static content-type-to-format table.
mimeTypeMapping == (<<"image", "png">> :> "png")

\* Line 265-266: mimeTypeMapping[contentType] || contentType.split("/")[1];
\* the second element of a one-element array is undefined.
FormatOf(contentType) ==
    IF contentType \in DOMAIN mimeTypeMapping THEN mimeTypeMapping[contentType]
    ELSE IF Len(contentType) >= 2 THEN contentType[2]
    ELSE "undefined"

\* Line 267: formats.set(format, (formats.get(format) || 0) + 1) on a Map,
\* which keeps its keys in insertion order.
FormatsCount(formats, format) ==
    IF \E i \in 1..Len(formats) : formats[i][1] = format
    THEN [i \in 1..Len(formats) |->
            IF formats[i][1] = format THEN <<format, formats[i][2] + 1>> ELSE formats[i]]
    ELSE Append(formats, <<format, 1>>)

\* Line 271: { formats: Array.from(formats.entries()) }
FormatsReport(formats) == [type |-> "formats", formats |-> formats]

\* Lines 271-276: the result is cached and sent.
FmtFinish(r, q) ==
    /\ cache' = CacheSet(cache, "file-formats", JSONstringify(FormatsReport(q.formats)))
    /\ Finish(r, [Response("file-formats", 200,
                           JSONstringify(FormatsReport(q.formats)), "none")
                  EXCEPT !.locals = [files |-> q.files, failed |-> {},
                                     totalUsedBytes |-> 0]])

\* Lines 277-280: the catch block; tasks still running have no effect left.
FmtFail(r, q, err) ==
    /\ UNCHANGED cache
    /\ Finish(r, [Response("file-formats", 500,
                           Message("Failed to fetch file formats"), err)
                  EXCEPT !.locals = [files |-> q.files, failed |-> q.failed,
                                     totalUsedBytes |-> 0]])

\* Lines 252-258: the cache check, then the call of bucket.getFiles().
FmtStart(r) ==
    /\ FreeSlot(r)
    /\ UNCHANGED_stores
    /\ UNCHANGED cache
    /\ IF CacheHas(cache, "file-formats")
       THEN IF JSONparses(cache["file-formats"])
            THEN Answer(Response("file-formats", 200,
                                 JSONstringify(JSONparse(cache["file-formats"])), "none"))
            ELSE Answer(Response("file-formats", 500,
                                 Message("Failed to fetch file formats"), "parse"))
       ELSE Continue(r, [op |-> "file-formats", pc |-> "getFiles", files |-> {},
                         pending |-> {}, failed |-> {}, formats |-> <<>>])

\* Lines 258-262: the file list arrives; one getMetadata() call per file.
FmtGetFiles(r, ok) ==
    /\ reqs[r].op = "file-formats" /\ reqs[r].pc = "getFiles"
    /\ UNCHANGED_stores
    /\ IF ok
       THEN LET q == [reqs[r] EXCEPT !.pc = "metadata", !.files = DOMAIN bucket,
                                    !.pending = DOMAIN bucket]
            IN  IF q.files = {}
                THEN FmtFinish(r, q)
                ELSE /\ UNCHANGED cache
                     /\ Continue(r, q)
       ELSE FmtFail(r, reqs[r], "enumeration")

\* Lines 263-267: the metadata of file f arrives.  The task throws when the
\* call fails and when contentType is undefined (undefined.split); nothing
\* catches it inside the task.
FmtTaskThrows(f, ok) ==
    \/ ~(ok /\ f \in DOMAIN bucket)
    \/ bucket[f].contentType = Absent

FmtMetadataTask(q, f) ==
    [q EXCEPT !.pending = @ \ {f},
              !.formats = FormatsCount(@, FormatOf(bucket[f].contentType))]

FmtMetadata(r, f, ok) ==
    /\ reqs[r].op = "file-formats" /\ reqs[r].pc = "metadata"
    /\ f \in reqs[r].pending
    /\ UNCHANGED_stores
    /\ IF FmtTaskThrows(f, ok)
       THEN FmtFail(r, [reqs[r] EXCEPT !.failed = {f}], "metadata")
       ELSE LET q == FmtMetadataTask(reqs[r], f)
            IN  IF q.pending = {}
                THEN FmtFinish(r, q)
                ELSE /\ UNCHANGED cache
                     /\ Continue(r, q)

\* ------------------------------------------------------- POST /api/upload
\* Tasks of all uploads in flight that may still add a document.
RECURSIVE PendingAdds(_)
PendingAdds(S) ==
    IF S = {} THEN 0
    ELSE LET r == CHOOSE x \in S : TRUE
         IN  (IF reqs[r].op = "upload"
              THEN Cardinality({i \in 1..Len(reqs[r].tasks) :
                                  reqs[r].tasks[i] \in {"save", "sign", "add"}})
              ELSE 0) + PendingAdds(S \ {r})

UploadBody(fileNames) ==
    <<"json", [type |-> "upload",
               fileURLs |-> [i \in 1..Len(fileNames) |-> SignedUrl(fileNames[i])]]>>

\* A request field the client did not send.
Undefined == <<"undefined">>

\* !x for a value that is undefined, null or an array.
Falsy(x) == x[1] \in {"undefined", "null"}

\* The number of files, or of names, the client sent: the length of an
\* array, one for a bare name that is not JSON, none for no field or null.
Supplied(x) ==
    IF x[1] = "array" THEN Len(x[2])
    ELSE IF x[1] = "json" THEN (IF x[2][1] = "array" THEN Len(x[2][2]) ELSE 0)
    ELSE IF x[1] = "text" THEN 1
    ELSE 0

\* A response of the upload handler (status 0: none was sent), with the
\* number of files and of names its request carried.
UploadResponse(status, body, err, files, fileNames) ==
    [Response("upload", status, body, err)
        EXCEPT !.locals = [files |-> files, fileNames |-> fileNames]]

\* Lines 74-91.  JSON.parse(req.body.fileNames) runs first, outside the try
\* block: when the field is missing or is not JSON it throws, the handler's
\* promise rejects and no response is sent.  Then the check of the two
\* values and of their lengths, then one task per file, each calling save().
UploadStart(r, files, fileNames) ==
    /\ FreeSlot(r)
    /\ UNCHANGED_stores
    /\ UNCHANGED cache
    /\ IF ~JSONparses(fileNames)
       THEN Answer(UploadResponse(0, <<"none">>, "unhandled",
                                  Supplied(files), Supplied(fileNames)))
       ELSE IF \/ Falsy(files) \/ Falsy(JSONparse(fileNames))
               \/ Len(files[2]) # Len(JSONparse(fileNames)[2])
       THEN Answer(UploadResponse(400,
                   Message("Missing required fields or mismatch in file count"), "none",
                   Supplied(files), Supplied(fileNames)))
       ELSE IF Len(files[2]) = 0
       THEN Answer(UploadResponse(200, UploadBody(JSONparse(fileNames)[2]), "none",
                                  Supplied(files), Supplied(fileNames)))
       ELSE /\ (nextId - 1) + PendingAdds(InFlight) + Len(files[2]) <= MaxDocs
            /\ Continue(r, [op |-> "upload", files |-> files[2],
                            fileNames |-> JSONparse(fileNames)[2],
                            tasks |-> [i \in 1..Len(files[2]) |-> "save"],
                            responded |-> FALSE])

\* Line 76: the rejection of the handler's promise is handled nowhere.  Node
\* may only warn, or it ends the process: the cache and the handlers in
\* flight are gone, the stores stay as they are, and the process is started
\* again.
ProcessExit ==
    /\ sent.op = "upload" /\ sent.err = "unhandled"
    /\ UNCHANGED_stores
    /\ cache' = EmptyMap
    /\ reqs' = [r \in DOMAIN reqs |-> Idle]
    /\ sent' = NoResponse

\* Lines 85-115: task i of the upload in slot r has moved to `pc`.  The first
\* task to fail rejects Promise.all and the 500 is sent, while the other
\* tasks run on; when every task is done the 200 is sent.
UploadSettle(r, i, pc) ==
    LET q    == [reqs[r] EXCEPT !.tasks[i] = pc,
                                !.responded = @ \/ pc = "failed"]
        over == \A j \in 1..Len(q.tasks) : q.tasks[j] \in {"done", "failed"}
    IN  /\ reqs' = [reqs EXCEPT ![r] = IF over THEN Idle ELSE q]
        /\ sent' = IF pc = "failed" /\ ~reqs[r].responded
                   THEN UploadResponse(500, Message("Failed to upload files"), "upload",
                                       Len(q.files), Len(q.fileNames))
                   ELSE IF over /\ ~q.responded
                   THEN UploadResponse(200, UploadBody(q.fileNames), "none",
                                       Len(q.files), Len(q.fileNames))
                   ELSE NoResponse

\* Lines 91-93: save() has stored the object; getSignedUrl() is called.
UploadSave(r, i, ok) ==
    /\ reqs[r].op = "upload" /\ i \in 1..Len(reqs[r].tasks)
    /\ reqs[r].tasks[i] = "save"
    /\ UNCHANGED <<filesColl, nextId, downloads, cache, notesColl, nextNoteId, users>>
    /\ IF ok
       THEN /\ bucket' = CacheSet(bucket, reqs[r].fileNames[i], reqs[r].files[i])
            /\ UploadSettle(r, i, "sign")
       ELSE /\ UNCHANGED bucket
            /\ UploadSettle(r, i, "failed")

\* Lines 93-101: the URL arrives and is cached under the file name; add() is called.
UploadSign(r, i, ok) ==
    /\ reqs[r].op = "upload" /\ i \in 1..Len(reqs[r].tasks)
    /\ reqs[r].tasks[i] = "sign"
    /\ UNCHANGED_stores
    /\ IF ok
       THEN /\ cache' = CacheSet(cache, reqs[r].fileNames[i],
                                 SignedUrl(reqs[r].fileNames[i]))
            /\ UploadSettle(r, i, "add")
       ELSE /\ UNCHANGED cache
            /\ UploadSettle(r, i, "failed")

\* Line 101: Firestore adds the document under a fresh id while the task
\* waits, or the call fails.
UploadAdd(r, i, ok) ==
    /\ reqs[r].op = "upload" /\ i \in 1..Len(reqs[r].tasks)
    /\ reqs[r].tasks[i] = "add"
    /\ UNCHANGED <<bucket, downloads, cache, notesColl, nextNoteId, users>>
    /\ IF ok
       THEN /\ filesColl' = filesColl \cup
                   {[id |-> nextId, fileName |-> reqs[r].fileNames[i],
                     fileURL |-> SignedUrl(reqs[r].fileNames[i])]}
            /\ nextId' = nextId + 1
            /\ UploadSettle(r, i, "added")
       ELSE /\ UNCHANGED <<filesColl, nextId>>
            /\ UploadSettle(r, i, "failed")

\* Lines 107-111: the task resumes and returns its URL; the 200 is sent when
\* it was the last one.
UploadReturn(r, i) ==
    /\ reqs[r].op = "upload" /\ i \in 1..Len(reqs[r].tasks)
    /\ reqs[r].tasks[i] = "added"
    /\ UNCHANGED_stores
    /\ UNCHANGED cache
    /\ UploadSettle(r, i, "done")

\* ---------------------------------------------------- DELETE /api/files/:id
DeleteFail(r) ==
    Finish(r, Response("delete", 500, Message("Failed to delete file"), "delete"))

\* Lines 183-185: the 404 of the request for req.params.id.
DeleteNotFound(fileId) ==
    [Response("delete", 404, Message("File not found"), "none")
        EXCEPT !.locals = [fileId |-> fileId]]

\* Lines 176-181: fileDoc.get() is called.
DeleteStart(r, fileId) ==
    /\ FreeSlot(r)
    /\ UNCHANGED_stores
    /\ UNCHANGED cache
    /\ Continue(r, [op |-> "delete", pc |-> "get", fileId |-> fileId,
                    found |-> FALSE, fileName |-> ""])

\* Line 181: Firestore reads the document while the handler waits and
\* sends what it read, or the call fails.
DeleteGet(r, ok) ==
    /\ reqs[r].op = "delete" /\ reqs[r].pc = "get"
    /\ UNCHANGED_stores
    /\ UNCHANGED cache
    /\ IF ok
       THEN IF \E d \in filesColl : d.id = reqs[r].fileId
            THEN LET fileData == CHOOSE d \in filesColl : d.id = reqs[r].fileId
                 IN  Continue(r, [reqs[r] EXCEPT !.pc = "got", !.found = TRUE,
                                                !.fileName = fileData.fileName])
            ELSE Continue(r, [reqs[r] EXCEPT !.pc = "got"])
       ELSE DeleteFail(r)

\* A handler that invalidates the listing before it looks at what it read.
DeleteGotInvalidatesFirst(r) ==
    /\ reqs[r].op = "delete" /\ reqs[r].pc = "got"
    /\ UNCHANGED_stores
    /\ cache' = CacheDel(cache, "files")
    /\ IF reqs[r].found
       THEN Continue(r, [reqs[r] EXCEPT !.pc = "storage"])
       ELSE Finish(r, DeleteNotFound(reqs[r].fileId))

\* Lines 181-188: the handler resumes with what was read: 404 without a
\* document, else fileRef.delete() is called.
DeleteGot(r) ==
    /\ reqs[r].op = "delete" /\ reqs[r].pc = "got"
    /\ UNCHANGED_stores
    /\ UNCHANGED cache
    /\ IF reqs[r].found
       THEN Continue(r, [reqs[r] EXCEPT !.pc = "storage"])
       ELSE Finish(r, DeleteNotFound(reqs[r].fileId))

\* Lines 188-189: the object is deleted (deleting a missing object fails);
\* fileDoc.delete() is called.
DeleteStorage(r, ok) ==
    /\ reqs[r].op = "delete" /\ reqs[r].pc = "storage"
    /\ UNCHANGED <<filesColl, nextId, downloads, cache, notesColl, nextNoteId, users>>
    /\ IF ok /\ reqs[r].fileName \in DOMAIN bucket
       THEN /\ bucket' = CacheDel(bucket, reqs[r].fileName)
            /\ Continue(r, [reqs[r] EXCEPT !.pc = "doc"])
       ELSE /\ UNCHANGED bucket
            /\ DeleteFail(r)

\* Line 189: Firestore deletes the document while the handler waits, or
\* the call fails.
DeleteDoc(r, ok) ==
    /\ reqs[r].op = "delete" /\ reqs[r].pc = "doc"
    /\ UNCHANGED <<bucket, nextId, downloads, notesColl, nextNoteId, users>>
    /\ UNCHANGED cache
    /\ IF ok
       THEN /\ filesColl' = {d \in filesColl : d.id # reqs[r].fileId}
            /\ Continue(r, [reqs[r] EXCEPT !.pc = "deleted"])
       ELSE /\ UNCHANGED filesColl
            /\ DeleteFail(r)

\* Lines 192-194: the handler resumes, clears the "files" key and sends 200.
DeleteFinish(r) ==
    /\ reqs[r].op = "delete" /\ reqs[r].pc = "deleted"
    /\ UNCHANGED_stores
    /\ cache' = CacheDel(cache, "files")
    /\ Finish(r, Response("delete", 200, Message("File deleted successfully"), "none"))

\* ----------------------------------------------- GET /api/download/:fileName
DownloadFail(r) ==
    Finish(r, Response("download", 500, Message("Failed to download file"), "download"))

\* Lines 143-148: fileRef.exists() is called.
DownloadStart(r, fileName) ==
    /\ FreeSlot(r)
    /\ UNCHANGED_stores
    /\ UNCHANGED cache
    /\ Continue(r, [op |-> "download", pc |-> "exists", fileName |-> fileName])

\* Lines 148-157: 404 when the object does not exist, else getSignedUrl().
DownloadExists(r, ok) ==
    /\ reqs[r].op = "download" /\ reqs[r].pc = "exists"
    /\ UNCHANGED_stores
    /\ UNCHANGED cache
    /\ IF ok
       THEN IF reqs[r].fileName \in DOMAIN bucket
            THEN Continue(r, [reqs[r] EXCEPT !.pc = "sign"])
            ELSE Finish(r, Response("download", 404, Message("File not found"), "none"))
       ELSE DownloadFail(r)

\* Lines 154-162: the URL arrives and is cached under the file name; fetch().
DownloadSign(r, ok) ==
    /\ reqs[r].op = "download" /\ reqs[r].pc = "sign"
    /\ UNCHANGED_stores
    /\ IF ok
       THEN /\ cache' = CacheSet(cache, reqs[r].fileName, SignedUrl(reqs[r].fileName))
            /\ Continue(r, [reqs[r] EXCEPT !.pc = "fetch"])
       ELSE /\ UNCHANGED cache
            /\ DownloadFail(r)

\* Lines 162-172: the object's bytes are piped to the client, unless the
\* fetch fails or answers not-ok (the object is gone).
DownloadFetch(r, ok) ==
    /\ reqs[r].op = "download" /\ reqs[r].pc = "fetch"
    /\ UNCHANGED_stores
    /\ UNCHANGED cache
    /\ IF ok /\ reqs[r].fileName \in DOMAIN bucket
       THEN Finish(r, Response("download", 200,
                              <<"file", bucket[reqs[r].fileName]>>, "none"))
       ELSE DownloadFail(r)

\* ------------------------------------------------------ the specification
\* ------------------------------------------------------------ /api/notes
\* req.body.title, req.body.text: missing (sent as the empty string here) or not.
NoteStrings == {"", "a", "b"}

\* req.params.id
NoteIds == 1..MaxNotes

NotesReport(notes) == [type |-> "notes", notes |-> notes]

NoteBody(note) == <<"json", [type |-> "note", note |-> note]>>

\* The catch blocks: res.status(500).json({ message: error.message }).
NotesFail(r, op, err) ==
    /\ UNCHANGED cache
    /\ Finish(r, Response(op, 500, Message("error.message"), err))

\* cache.get("notes") || "[]"
CachedNotesText == IF CacheHas(cache, "notes") THEN cache["notes"]
                   ELSE JSONstringify(NotesReport(<<>>))

\* Lines 344-353: the cache check, then the call of Note.find().
NotesGetStart(r) ==
    /\ FreeSlot(r)
    /\ UNCHANGED_stores
    /\ UNCHANGED cache
    /\ IF CacheHas(cache, "notes")
       THEN IF JSONparses(cache["notes"])
            THEN Answer(Response("notes-get", 200,
                                 JSONstringify(JSONparse(cache["notes"])), "none"))
            ELSE Answer(Response("notes-get", 500, Message("error.message"), "parse"))
       ELSE Continue(r, [op |-> "notes-get", pc |-> "find", notes |-> <<>>])

\* Line 353: MongoDB runs the query and sends the notes, or the query fails.
NotesGetFind(r, ok) ==
    /\ reqs[r].op = "notes-get" /\ reqs[r].pc = "find"
    /\ UNCHANGED_stores
    /\ IF ok
       THEN /\ UNCHANGED cache
            /\ Continue(r, [reqs[r] EXCEPT !.pc = "found",
                                           !.notes = ListingOf(notesColl)])
       ELSE NotesFail(r, "notes-get", "find")

\* Lines 355-356: the notes that arrived are cached and sent.
NotesGetCache(r) ==
    /\ reqs[r].op = "notes-get" /\ reqs[r].pc = "found"
    /\ UNCHANGED_stores
    /\ cache' = CacheSet(cache, "notes", JSONstringify(NotesReport(reqs[r].notes)))
    /\ Finish(r, Response("notes-get", 200,
                          JSONstringify(NotesReport(reqs[r].notes)), "none"))

\* Saves of notes in flight that may still add a note.
PendingSaves == Cardinality({s \in InFlight : reqs[s].op = "notes-post"
                                                /\ reqs[s].pc = "save"})

\* Lines 363-374: the check of title and text, then the call of newNote.save().
NotesPostStart(r, title, text) ==
    /\ FreeSlot(r)
    /\ UNCHANGED_stores
    /\ UNCHANGED cache
    /\ IF title = "" \/ text = ""
       THEN Answer(Response("notes-post", 400,
                            Message("Title and text are required"), "none"))
       ELSE /\ (nextNoteId - 1) + PendingSaves + 1 <= MaxNotes
            /\ Continue(r, [op |-> "notes-post", pc |-> "save",
                            title |-> title, text |-> text, id |-> 0])

\* Line 374: MongoDB stores the note, or the save fails.
NotesPostSave(r, ok) ==
    /\ reqs[r].op = "notes-post" /\ reqs[r].pc = "save"
    /\ UNCHANGED <<bucket, filesColl, nextId, downloads, users>>
    /\ IF ok
       THEN /\ notesColl' = notesColl \cup {[id |-> nextNoteId, title |-> reqs[r].title,
                                              text |-> reqs[r].text]}
            /\ nextNoteId' = nextNoteId + 1
            /\ UNCHANGED cache
            /\ Continue(r, [reqs[r] EXCEPT !.pc = "saved", !.id = nextNoteId])
       ELSE /\ UNCHANGED <<notesColl, nextNoteId>>
            /\ NotesFail(r, "notes-post", "save")

\* Lines 376-381: the new note is pushed onto the cached list, or onto []
\* when nothing is cached, and the list is cached.
NotesPostCache(r) ==
    LET newNote == [id |-> reqs[r].id, title |-> reqs[r].title, text |-> reqs[r].text]
    IN  /\ reqs[r].op = "notes-post" /\ reqs[r].pc = "saved"
        /\ UNCHANGED_stores
        /\ IF JSONparses(CachedNotesText)
           THEN /\ cache' = CacheSet(cache, "notes", JSONstringify(NotesReport(
                                Append(JSONparse(CachedNotesText).notes, newNote))))
                /\ Finish(r, Response("notes-post", 200, NoteBody(newNote), "none"))
           ELSE NotesFail(r, "notes-post", "parse")

\* Lines 387-394: the call of Note.findByIdAndUpdate().
NotesPutStart(r, id, title, text) ==
    /\ FreeSlot(r)
    /\ UNCHANGED_stores
    /\ UNCHANGED cache
    /\ Continue(r, [op |-> "notes-put", pc |-> "update",
                    title |-> title, text |-> text, id |-> id])

\* Lines 390-397: MongoDB updates the note and sends it; 404 without one.
NotesPutUpdate(r, ok) ==
    LET updatedNote == [id |-> reqs[r].id, title |-> reqs[r].title, text |-> reqs[r].text]
    IN  /\ reqs[r].op = "notes-put" /\ reqs[r].pc = "update"
        /\ UNCHANGED <<bucket, filesColl, nextId, downloads, nextNoteId, users>>
        /\ UNCHANGED cache
        /\ IF ok
           THEN IF \E n \in notesColl : n.id = reqs[r].id
                THEN /\ notesColl' = {n \in notesColl : n.id # reqs[r].id}
                                         \cup {updatedNote}
                     /\ Continue(r, [reqs[r] EXCEPT !.pc = "updated"])
                ELSE /\ UNCHANGED notesColl
                     /\ Finish(r, Response("notes-put", 404,
                                           Message("Note not found"), "none"))
           ELSE /\ UNCHANGED notesColl
                /\ Finish(r, Response("notes-put", 500,
                                      Message("error.message"), "update"))

\* Lines 399-408: the note is replaced in the cached list when it is there.
NotesPutCache(r) ==
    LET updatedNote == [id |-> reqs[r].id, title |-> reqs[r].title, text |-> reqs[r].text]
    IN  /\ reqs[r].op = "notes-put" /\ reqs[r].pc = "updated"
        /\ UNCHANGED_stores
        /\ IF JSONparses(CachedNotesText)
           THEN LET cachedNotes == JSONparse(CachedNotesText).notes
                IN  /\ cache' =
                         IF \E i \in 1..Len(cachedNotes) : cachedNotes[i].id = reqs[r].id
                         THEN CacheSet(cache, "notes", JSONstringify(NotesReport(
                                 [i \in 1..Len(cachedNotes) |->
                                     IF i = (CHOOSE j \in 1..Len(cachedNotes) :
                                               /\ cachedNotes[j].id = reqs[r].id
                                               /\ \A k \in 1..(j - 1) :
                                                     cachedNotes[k].id # reqs[r].id)
                                     THEN updatedNote ELSE cachedNotes[i]])))
                         ELSE cache
                    /\ Finish(r, Response("notes-put", 200, NoteBody(updatedNote), "none"))
           ELSE NotesFail(r, "notes-put", "parse")

\* Lines 415-417: the call of Note.findByIdAndDelete().
NotesDeleteStart(r, id) ==
    /\ FreeSlot(r)
    /\ UNCHANGED_stores
    /\ UNCHANGED cache
    /\ Continue(r, [op |-> "notes-delete", pc |-> "delete", id |-> id,
                    title |-> "", text |-> ""])

\* Lines 417-420: MongoDB deletes the note and sends it; 404 without one.
NotesDeleteRemove(r, ok) ==
    /\ reqs[r].op = "notes-delete" /\ reqs[r].pc = "delete"
    /\ UNCHANGED <<bucket, filesColl, nextId, downloads, nextNoteId, users>>
    /\ UNCHANGED cache
    /\ IF ok
       THEN IF \E n \in notesColl : n.id = reqs[r].id
            THEN LET deletedNote == CHOOSE n \in notesColl : n.id = reqs[r].id
                 IN  /\ notesColl' = notesColl \ {deletedNote}
                     /\ Continue(r, [reqs[r] EXCEPT !.pc = "deleted",
                                                    !.title = deletedNote.title,
                                                    !.text = deletedNote.text])
            ELSE /\ UNCHANGED notesColl
                 /\ Finish(r, Response("notes-delete", 404,
                                       Message("Note not found"), "none"))
       ELSE /\ UNCHANGED notesColl
            /\ Finish(r, Response("notes-delete", 500,
                                  Message("error.message"), "delete"))

\* Lines 422-428: the note is filtered out of the cached list, or out of []
\* when nothing is cached, and the list is cached.
NotesDeleteCache(r) ==
    LET deletedNote == [id |-> reqs[r].id, title |-> reqs[r].title, text |-> reqs[r].text]
    IN  /\ reqs[r].op = "notes-delete" /\ reqs[r].pc = "deleted"
        /\ UNCHANGED_stores
        /\ IF JSONparses(CachedNotesText)
           THEN /\ cache' = CacheSet(cache, "notes", JSONstringify(NotesReport(
                                SelectSeq(JSONparse(CachedNotesText).notes,
                                          LAMBDA note : note.id # reqs[r].id))))
                /\ Finish(r, Response("notes-delete", 200, NoteBody(deletedNote), "none"))
           ELSE NotesFail(r, "notes-delete", "parse")

\* ------------------------------------------------------- verifyIdToken
\* req.headers.authorization as its space-separated parts; no header is <<>>.
NoHeader == <<>>

AuthHeaders == {NoHeader, <<"Bearer", "good">>, <<"Bearer", "bad">>, <<"good">>}

\* The tokens admin.auth().verifyIdToken() accepts.
ValidTokens == {"good"}

\* authHeader.split(" ")[1]
TokenOf(authHeader) == IF Len(authHeader) >= 2 THEN authHeader[2] ELSE "undefined"

\* What the middleware has done with a request: the response it sent
\* (status 0: none) and the number of times it called next().
Verdict(status, body, err, next, user) ==
    [Response("verifyIdToken", status, body, err)
        EXCEPT !.locals = [next |-> next, user |-> user]]

\* Lines 3-13: no header is a 401; else verifyIdToken(token) is called.
VerifyStart(r, authHeader) ==
    /\ FreeSlot(r)
    /\ UNCHANGED_stores
    /\ UNCHANGED cache
    /\ IF authHeader = NoHeader
       THEN Answer(Verdict(401, Message("No token provided"), "none", 0, "undefined"))
       ELSE Continue(r, [op |-> "verifyIdToken", pc |-> "verify",
                        token |-> TokenOf(authHeader)])

\* A middleware whose 401 is not the end of it: next() is called after it.
VerifyDoneFallsThrough(r, ok) ==
    /\ reqs[r].op = "verifyIdToken" /\ reqs[r].pc = "verify"
    /\ UNCHANGED_stores
    /\ UNCHANGED cache
    /\ IF ok /\ reqs[r].token \in ValidTokens
       THEN Finish(r, Verdict(0, <<"none">>, "none", 1, reqs[r].token))
       ELSE Finish(r, Verdict(401, Message("Invalid token"), "verify", 1, "undefined"))

\* Lines 13-19: the token verifies and next() is called, or the call
\* throws and the 401 is sent.
VerifyDone(r, ok) ==
    /\ reqs[r].op = "verifyIdToken" /\ reqs[r].pc = "verify"
    /\ UNCHANGED_stores
    /\ UNCHANGED cache
    /\ IF ok /\ reqs[r].token \in ValidTokens
       THEN Finish(r, Verdict(0, <<"none">>, "none", 1, reqs[r].token))
       ELSE Finish(r, Verdict(401, Message("Invalid token"), "verify", 0, "undefined"))

\* ------------------------------------------------ POST /api/authenticate
\* req.body.username, req.body.password
Usernames == {"alice", "bob"}

Passwords == {"p", "q"}

AuthBody(authenticated) ==
    <<"json", [type |-> "authenticate", authenticated |-> authenticated]>>

\* .where("username", "==", username).limit(1): the first matching document
\* in document order.
FirstUser(username) ==
    CHOOSE u \in users : /\ u.username = username
                         /\ \A v \in users : v.username = username => u.id <= v.id

\* Lines 297-329: a response of the login handler, with the req.body
\* fields it answers.
AuthResponse(r, status, body, err) ==
    [Response("authenticate", status, body, err)
        EXCEPT !.locals = [username |-> reqs[r].username,
                           password |-> reqs[r].password]]

\* Lines 297-306: the users query is called.
AuthStart(r, username, password) ==
    /\ FreeSlot(r)
    /\ UNCHANGED_stores
    /\ UNCHANGED cache
    /\ Continue(r, [op |-> "authenticate", pc |-> "query",
                    username |-> username, password |-> password])

\* A handler that looks for the password in every document of the username.
AuthQueryAnyDocument(r, ok) ==
    /\ reqs[r].op = "authenticate" /\ reqs[r].pc = "query"
    /\ UNCHANGED_stores
    /\ UNCHANGED cache
    /\ IF ok
       THEN IF \E u \in users : /\ u.username = reqs[r].username
                                /\ u.password = reqs[r].password
            THEN Finish(r, AuthResponse(r, 200, AuthBody(TRUE), "none"))
            ELSE Finish(r, AuthResponse(r, 401, AuthBody(FALSE), "none"))
       ELSE Finish(r, AuthResponse(r, 500,
                               Message("Failed to authenticate user"), "query"))

\* Lines 302-329: the snapshot arrives; 401 when it is empty or the password
\* of its one document differs, else 200; 500 when the query fails.
AuthQuery(r, ok) ==
    /\ reqs[r].op = "authenticate" /\ reqs[r].pc = "query"
    /\ UNCHANGED_stores
    /\ UNCHANGED cache
    /\ IF ok
       THEN IF ~\E u \in users : u.username = reqs[r].username
            THEN Finish(r, AuthResponse(r, 401, AuthBody(FALSE), "none"))
            ELSE IF FirstUser(reqs[r].username).password = reqs[r].password
            THEN Finish(r, AuthResponse(r, 200, AuthBody(TRUE), "none"))
            ELSE Finish(r, AuthResponse(r, 401, AuthBody(FALSE), "none"))
       ELSE Finish(r, AuthResponse(r, 500,
                               Message("Failed to authenticate user"), "query"))

\* Sequences of length at most n over S.
SeqsUpTo(S, n) == UNION {[1..k -> S] : k \in 0..n}

\* req.files: multer's array, or nothing when the request is not multipart.
ReqFiles == {Undefined} \cup {<<"array", files>> : files \in SeqsUpTo(Uploads, MaxBatch)}

\* req.body.fileNames: no such field, a bare name (not JSON), or the JSON
\* text of null or of an array of names.
ReqFileNames ==
    {Undefined, <<"json", <<"null">>>>}
        \cup {<<"text", fileName>> : fileName \in FileNames}
        \cup {<<"json", <<"array", fileNames>>>> : fileNames \in SeqsUpTo(FileNames, MaxBatch)}

UploadInputs ==
    {in \in [files : ReqFiles, fileNames : ReqFileNames] :
        (in.files[1] = "array" /\ JSONparses(in.fileNames)
            /\ JSONparse(in.fileNames)[1] = "array") =>
          \A i \in 1..Len(in.files[2]) :
            i <= Len(JSONparse(in.fileNames)[2]) =>
                JSONparse(in.fileNames)[2][i] = NamedFor(in.files[2][i])}

InitStores ==
    /\ bucket = EmptyMap
    /\ filesColl = {}
    /\ nextId = 1
    /\ downloads = NumDownloads
    /\ notesColl = {}
    /\ nextNoteId = 1
    /\ users = {}
    /\ cache = EmptyMap
    /\ sent = NoResponse

Init ==
    /\ InitStores
    /\ reqs = [r \in 1..MaxReqs |-> Idle]

\* The cache key of the notes list, as a file name.
NotesFileNames == {"notes"}

\* Uploads of one file under that name, with and without the names field.
NotesUploadInputs ==
    {[files |-> <<"array", <<file>>>>, fileNames |-> fileNames] :
        file \in Uploads,
        fileNames \in {Undefined} \cup
            {<<"json", <<"array", <<fileName>>>>>> : fileName \in NotesFileNames}}

\* The notes handlers, and the two handlers that cache a URL under a file
\* name, over a database that holds any notes when the process starts (the
\* notes outlive the process, the cache does not).
NotesInit ==
    /\ bucket = EmptyMap
    /\ filesColl = {}
    /\ nextId = 1
    /\ downloads = NumDownloads
    /\ \E k \in 0..MaxNotes :
          /\ nextNoteId = k + 1
          /\ \E title \in [1..k -> NoteStrings \ {""}] :
                notesColl = {[id |-> i, title |-> title[i], text |-> "a"] : i \in 1..k}
    /\ users = {}
    /\ cache = EmptyMap
    /\ sent = NoResponse
    /\ reqs = [r \in 1..MaxReqs |-> Idle]

NotesNext ==
    \/ ProcessExit
    \/ \E r \in 1..MaxReqs :
        \/ NotesGetStart(r)
        \/ \E ok \in BOOLEAN : NotesGetFind(r, ok)
        \/ NotesGetCache(r)
        \/ \E title, text \in NoteStrings : NotesPostStart(r, title, text)
        \/ \E ok \in BOOLEAN : NotesPostSave(r, ok)
        \/ NotesPostCache(r)
        \/ \E id \in NoteIds, title, text \in NoteStrings \ {""} :
              NotesPutStart(r, id, title, text)
        \/ \E ok \in BOOLEAN : NotesPutUpdate(r, ok)
        \/ NotesPutCache(r)
        \/ \E id \in NoteIds : NotesDeleteStart(r, id)
        \/ \E ok \in BOOLEAN : NotesDeleteRemove(r, ok)
        \/ NotesDeleteCache(r)
        \/ \E in \in NotesUploadInputs : UploadStart(r, in.files, in.fileNames)
        \/ \E i \in 1..MaxBatch, ok \in BOOLEAN : UploadSave(r, i, ok)
        \/ \E i \in 1..MaxBatch, ok \in BOOLEAN : UploadSign(r, i, ok)
        \/ \E i \in 1..MaxBatch, ok \in BOOLEAN : UploadAdd(r, i, ok)
        \/ \E i \in 1..MaxBatch : UploadReturn(r, i)
        \/ \E fileName \in NotesFileNames : DownloadStart(r, fileName)
        \/ \E ok \in BOOLEAN : DownloadExists(r, ok)
        \/ \E ok \in BOOLEAN : DownloadSign(r, ok)
        \/ \E ok \in BOOLEAN : DownloadFetch(r, ok)

NotesSpec == NotesInit /\ [][NotesNext]_vars

\* The token middleware and the login handler over a users collection that
\* holds any documents (nothing in the program writes it).
UserDocs == [id : 1..MaxUsers, username : Usernames, password : Passwords]

AuthInit ==
    /\ bucket = EmptyMap
    /\ filesColl = {}
    /\ nextId = 1
    /\ downloads = NumDownloads
    /\ notesColl = {}
    /\ nextNoteId = 1
    /\ users \in {us \in SUBSET UserDocs : \A u, v \in us : u.id = v.id => u = v}
    /\ cache = EmptyMap
    /\ sent = NoResponse
    /\ reqs = [r \in 1..MaxReqs |-> Idle]

AuthNext ==
    \E r \in 1..MaxReqs :
        \/ \E authHeader \in AuthHeaders : VerifyStart(r, authHeader)
        \/ \E ok \in BOOLEAN : VerifyDone(r, ok)
        \/ \E username \in Usernames, password \in Passwords :
              AuthStart(r, username, password)
        \/ \E ok \in BOOLEAN : AuthQuery(r, ok)

AuthSpec == AuthInit /\ [][AuthNext]_vars

\* The handlers that read and write the "files" collection.
FilesNext(r) ==
    \/ GetFilesStart(r)
    \/ \E ok \in BOOLEAN : GetFilesQuery(r, ok)
    \/ GetFilesSnapshot(r)
    \/ \E in \in UploadInputs : UploadStart(r, in.files, in.fileNames)
    \/ \E i \in 1..MaxBatch, ok \in BOOLEAN : UploadSave(r, i, ok)
    \/ \E i \in 1..MaxBatch, ok \in BOOLEAN : UploadSign(r, i, ok)
    \/ \E i \in 1..MaxBatch, ok \in BOOLEAN : UploadAdd(r, i, ok)
    \/ \E i \in 1..MaxBatch : UploadReturn(r, i)
    \/ \E fileId \in DocIds : DeleteStart(r, fileId)
    \/ \E ok \in BOOLEAN : DeleteGet(r, ok)
    \/ DeleteGot(r)
    \/ \E ok \in BOOLEAN : DeleteStorage(r, ok)
    \/ \E ok \in BOOLEAN : DeleteDoc(r, ok)
    \/ DeleteFinish(r)

\* The handlers that only read the bucket.
BucketNext(r) ==
    \/ StatStart(r)
    \/ \E ok \in BOOLEAN : StatDownloads(r, ok)
    \/ \E ok \in BOOLEAN : StatGetFiles(r, ok)
    \/ \E f \in FileNames, ok \in BOOLEAN : StatMetadata(r, f, ok)
    \/ FmtStart(r)
    \/ \E ok \in BOOLEAN : FmtGetFiles(r, ok)
    \/ \E f \in FileNames, ok \in BOOLEAN : FmtMetadata(r, f, ok)
    \/ \E fileName \in FileNames : DownloadStart(r, fileName)
    \/ \E ok \in BOOLEAN : DownloadExists(r, ok)
    \/ \E ok \in BOOLEAN : DownloadSign(r, ok)
    \/ \E ok \in BOOLEAN : DownloadFetch(r, ok)

Next == \/ \E r \in 1..MaxReqs : FilesNext(r) \/ BucketNext(r)
        \/ ProcessExit

\* Every handler, the requests served one at a time.
Spec == Init /\ [][Next]_vars

\* The upload handler alone, from empty stores.
UploadNext ==
    \/ \E r \in 1..MaxReqs :
        \/ \E in \in UploadInputs : UploadStart(r, in.files, in.fileNames)
        \/ \E i \in 1..MaxBatch, ok \in BOOLEAN : UploadSave(r, i, ok)
        \/ \E i \in 1..MaxBatch, ok \in BOOLEAN : UploadSign(r, i, ok)
        \/ \E i \in 1..MaxBatch, ok \in BOOLEAN : UploadAdd(r, i, ok)
        \/ \E i \in 1..MaxBatch : UploadReturn(r, i)
    \/ ProcessExit

UploadSpec == Init /\ [][UploadNext]_vars

\* The handlers of the "files" collection, RaceReqs requests at a time.
RaceInit ==
    /\ InitStores
    /\ reqs = [r \in 1..RaceReqs |-> Idle]

RaceNext == \/ \E r \in 1..RaceReqs : FilesNext(r)
            \/ ProcessExit

RaceSpec == RaceInit /\ [][RaceNext]_vars

\* The three report handlers and the download handler over stores that hold
\* anything when the process starts (their contents outlive the process,
\* the cache does not) and that no request changes.
Docs == [id : DocIds, fileName : FileNames]

ReadInit ==
    /\ bucket \in UNION {[S -> Uploads] : S \in SUBSET FileNames}
    /\ \A f \in DOMAIN bucket : NamedFor(bucket[f]) = f
    /\ \E ds \in SUBSET Docs :
          /\ \A d, e \in ds : d.id = e.id => d = e
          /\ filesColl = {[id |-> d.id, fileName |-> d.fileName,
                           fileURL |-> SignedUrl(d.fileName)] : d \in ds}
    /\ nextId = MaxDocs + 1
    /\ downloads = NumDownloads
    /\ notesColl = {}
    /\ nextNoteId = 1
    /\ users = {}
    /\ cache = EmptyMap
    /\ sent = NoResponse
    /\ reqs = [r \in 1..MaxReqs |-> Idle]

\* The delete handler next to the listing and the upload handler,
\* RaceReqs requests at a time, over stores that hold anything when the
\* process starts and have room for one more document.
DeleteInit ==
    /\ bucket \in UNION {[S -> Uploads] : S \in SUBSET FileNames}
    /\ \A f \in DOMAIN bucket : NamedFor(bucket[f]) = f
    /\ \E ds \in SUBSET Docs :
          /\ \A d, e \in ds : d.id = e.id => d = e
          /\ \A d \in ds : d.id < MaxDocs
          /\ filesColl = {[id |-> d.id, fileName |-> d.fileName,
                           fileURL |-> SignedUrl(d.fileName)] : d \in ds}
    /\ nextId = MaxDocs
    /\ downloads = NumDownloads
    /\ notesColl = {}
    /\ nextNoteId = 1
    /\ users = {}
    /\ cache = EmptyMap
    /\ sent = NoResponse
    /\ reqs = [r \in 1..RaceReqs |-> Idle]

DeleteNext ==
    \/ ProcessExit
    \/ \E r \in 1..RaceReqs :
        \/ GetFilesStart(r)
        \/ \E ok \in BOOLEAN : GetFilesQuery(r, ok)
        \/ GetFilesSnapshot(r)
        \/ \E in \in UploadInputs : UploadStart(r, in.files, in.fileNames)
        \/ \E i \in 1..MaxBatch, ok \in BOOLEAN : UploadSave(r, i, ok)
        \/ \E i \in 1..MaxBatch, ok \in BOOLEAN : UploadSign(r, i, ok)
        \/ \E i \in 1..MaxBatch, ok \in BOOLEAN : UploadAdd(r, i, ok)
        \/ \E i \in 1..MaxBatch : UploadReturn(r, i)
        \/ \E fileId \in DocIds : DeleteStart(r, fileId)
        \/ \E ok \in BOOLEAN : DeleteGet(r, ok)
        \/ DeleteGot(r)
        \/ \E ok \in BOOLEAN : DeleteStorage(r, ok)
        \/ \E ok \in BOOLEAN : DeleteDoc(r, ok)
        \/ DeleteFinish(r)

DeleteSpec == DeleteInit /\ [][DeleteNext]_vars

ReadNext ==
    \E r \in 1..MaxReqs :
        \/ GetFilesStart(r)
        \/ \E ok \in BOOLEAN : GetFilesQuery(r, ok)
        \/ GetFilesSnapshot(r)
        \/ BucketNext(r)

ReadSpec == ReadInit /\ [][ReadNext]_vars

\* The two handlers that aggregate per-file metadata, over a bucket that
\* holds any files when the process starts and that no request changes.
AggInit ==
    /\ bucket \in UNION {[S -> Uploads] : S \in SUBSET FileNames}
    /\ filesColl = {}
    /\ nextId = 1
    /\ downloads = NumDownloads
    /\ notesColl = {}
    /\ nextNoteId = 1
    /\ users = {}
    /\ cache = EmptyMap
    /\ sent = NoResponse
    /\ reqs = [r \in 1..MaxReqs |-> Idle]

AggNext ==
    \E r \in 1..MaxReqs :
        \/ StatStart(r)
        \/ \E ok \in BOOLEAN : StatDownloads(r, ok)
        \/ \E ok \in BOOLEAN : StatGetFiles(r, ok)
        \/ \E f \in FileNames, ok \in BOOLEAN : StatMetadata(r, f, ok)
        \/ FmtStart(r)
        \/ \E ok \in BOOLEAN : FmtGetFiles(r, ok)
        \/ \E f \in FileNames, ok \in BOOLEAN : FmtMetadata(r, f, ok)

AggSpec == AggInit /\ [][AggNext]_vars

\* Every handler, one request at a time, the server never idling while a
\* step is possible and reads of the two bucket reports served again and again.
FairSpec ==
    /\ Spec
    /\ WF_vars(Next)
    /\ SF_vars(\E r \in 1..MaxReqs : StatStart(r))
    /\ SF_vars(\E r \in 1..MaxReqs : FmtStart(r))

\* ------------------------------------------------------------- the claims
\* The report a key caches.
ReportType(key) == IF key = "file-formats" THEN "formats" ELSE key

\* The step answered an upload that stored at least one file with 200.
UploadSucceeded ==
    /\ sent.op = "upload" /\ sent.status = 200
    /\ Len(JSONparse(sent.body).fileURLs) > 0

\* C1: right after POST /api/upload has answered 200, no report is cached
\* under 'files', 'statistics' or 'file-formats', so the next read of each
\* report recomputes it and counts the new file.
C1_UploadInvalidatesReports ==
    UploadSucceeded =>
        \A k \in ReportKeys : ~(CacheHas(cache, k) /\ JSONparses(cache[k]))

\* C2: right after DELETE /api/files/:id has answered 200, none of the
\* report keys is set in the cache.
C2_DeleteInvalidatesReports ==
    (sent.op = "delete" /\ sent.status = 200) =>
        \A k \in ReportKeys : ~CacheHas(cache, k)

\* C3: a value cached under a report key is always the JSON text of that
\* report, whatever file names uploads and downloads cache URLs under.
C3_ReportKeysHoldReports ==
    \A k \in ReportKeys :
        CacheHas(cache, k) =>
            /\ JSONparses(cache[k])
            /\ JSONparse(cache[k]).type = ReportType(k)

\* The ids a cached listing names.
CachedIds ==
    IF CacheHas(cache, "files") /\ JSONparses(cache["files"])
    THEN {JSONparse(cache["files"]).files[i].id :
            i \in 1..Len(JSONparse(cache["files"]).files)}
    ELSE {}

\* C4: when no request is in flight, the cached listing names no deleted
\* file: every id it lists is the id of a document (ids are never reused, so
\* a listed id without a document is a deleted one).
C4_NoDeletedFileListed ==
    Quiescent => CachedIds \subseteq {d.id : d \in filesColl}

\* The cached report under `key` counts another number of files than the
\* bucket holds.
Stale(key) ==
    /\ CacheHas(cache, key) /\ JSONparses(cache[key])
    /\ LET report == JSONparse(cache[key])
       IN  \/ /\ report.type = "statistics"
              /\ report.totalFiles # Cardinality(DOMAIN bucket)
           \/ /\ report.type = "formats"
              /\ Len(report.formats) = 0
              /\ DOMAIN bucket # {}

\* C5: a 'statistics' or 'file-formats' entry that an upload or delete has
\* made stale is eventually removed from the cache.
C5_StaleEntryRemoved ==
    /\ Stale("statistics") ~> ~CacheHas(cache, "statistics")
    /\ Stale("file-formats") ~> ~CacheHas(cache, "file-formats")

\* The request in slot r awaits the enumeration call of a report.
AwaitsEnumeration(r) ==
    /\ reqs[r].op \in ReportKeys
    /\ reqs[r].pc \in {"query", "downloads", "getFiles"}

\* C6: when the enumeration call of a report fails, the handler answers 500,
\* logs the failure and leaves the cache and the stores as they were.
C6_FailedEnumerationLeavesCache ==
    [][\A r \in Slots :
          (AwaitsEnumeration(r) /\ reqs'[r] = Idle /\ sent'.status # 200) =>
              /\ sent'.status = 500
              /\ sent'.op = reqs[r].op
              /\ sent'.err = "enumeration"
              /\ cache' = cache
              /\ <<bucket, filesColl, nextId, downloads>>' =
                     <<bucket, filesColl, nextId, downloads>>]_vars

\* C6 happens: the statistics enumeration failed over a non-empty bucket,
\* and the key is still unset.
C6_Witness ==
    /\ sent.op = "statistics" /\ sent.status = 500 /\ sent.err = "enumeration"
    /\ ~CacheHas(cache, "statistics")
    /\ DOMAIN bucket # {}

\* C7: a format breakdown in which the metadata fetch of a file failed
\* still answers 200.
C7_FormatsSurviveItemFailure ==
    (sent.op = "file-formats" /\ sent.locals.failed # {}) => sent.status = 200

\* C8: a statistics report in which a metadata fetch failed answers 200 and
\* its totalFiles counts only the files whose metadata was fetched.
C8_StatisticsExcludeFailedItem ==
    (sent.op = "statistics" /\ sent.err = "metadata") =>
        /\ sent.status = 200
        /\ JSONparse(sent.body).totalFiles =
               Cardinality(sent.locals.files \ sent.locals.failed)

\* C9: a computed format breakdown counts no file under a missing format
\* key: a file whose content type has no subtype is skipped.
C9_MalformedTypeSkipped ==
    (sent.op = "file-formats" /\ sent.status = 200 /\ sent.locals.files # {}) =>
        \A i \in 1..Len(JSONparse(sent.body).formats) :
            JSONparse(sent.body).formats[i][1] # "null"

\* C10: a report read that misses stores the JSON text it answers with
\* under the report key; a read that finds the key set answers 200 with the
\* stored text at once, touching neither the stores nor the cache.
C10_ReadThrough ==
    [][/\ \A r \in Slots :
            (reqs[r].op \in ReportKeys /\ reqs'[r] = Idle /\ sent'.status = 200) =>
                /\ CacheHas(cache', reqs[r].op)
                /\ cache'[reqs[r].op] = sent'.body
       /\ \A k \in ReportKeys :
            (reqs' = reqs /\ sent'.op = k /\ CacheHas(cache, k)) =>
                /\ sent'.status = 200
                /\ sent'.body = cache[k]
                /\ cache' = cache
                /\ <<bucket, filesColl, nextId, downloads>>' =
                       <<bucket, filesColl, nextId, downloads>>]_vars

\* The sizes of the stored files S, added up.
RECURSIVE SumSizes(_)
SumSizes(S) ==
    IF S = {} THEN 0
    ELSE LET f == CHOOSE x \in S : TRUE
         IN  bucket[f].size + SumSizes(S \ {f})

\* The format key a stored file is sent under (undefined is sent as null).
SentFormat(f) ==
    IF FormatOf(bucket[f].contentType) = "undefined" THEN "null"
    ELSE FormatOf(bucket[f].contentType)

\* C11: whatever the order in which the metadata fetches complete, when all
\* succeed the statistics byte total is the sum of the files' sizes, and the
\* format breakdown lists each format key once, with the number of files
\* that resolve to it, and no file is left out.
C11_ReductionLosesNoUpdate ==
    /\ (sent.op = "statistics" /\ sent.status = 200 /\ sent.err = "none"
            /\ sent.locals.files # {}) =>
          /\ sent.locals.files = DOMAIN bucket
          /\ sent.locals.totalUsedBytes = SumSizes(DOMAIN bucket)
          /\ JSONparse(sent.body).totalFiles = Cardinality(DOMAIN bucket)
    /\ (sent.op = "file-formats" /\ sent.status = 200 /\ sent.locals.files # {}) =>
          LET formats == JSONparse(sent.body).formats
          IN  /\ sent.locals.files = DOMAIN bucket
              /\ \A i, j \in 1..Len(formats) : formats[i][1] = formats[j][1] => i = j
              /\ \A i \in 1..Len(formats) :
                    formats[i][2] =
                        Cardinality({f \in DOMAIN bucket : SentFormat(f) = formats[i][1]})
              /\ \A f \in DOMAIN bucket :
                    \E i \in 1..Len(formats) : formats[i][1] = SentFormat(f)

\* C11 happens: a byte total over two files, fetched without failure.
C11_Witness ==
    /\ sent.op = "statistics" /\ sent.status = 200 /\ sent.err = "none"
    /\ Cardinality(sent.locals.files) = 2
    /\ sent.locals.totalUsedBytes = 5242880 + 6291456

\* The report a handler sends when nothing is stored.
EmptyReport(op) ==
    IF op = "files" THEN JSONstringify(FilesReport({}))
    ELSE IF op = "statistics" THEN JSONstringify(StatisticsReport(downloads, 0, {}))
    ELSE JSONstringify(FormatsReport(<<>>))

\* C12: with no file stored (no document, no storage object), a report
\* request whose enumeration calls do not fail is answered 200 with the empty
\* listing, zero files and zero bytes, or the empty format list.
C12_EmptyStoreReportsEmpty ==
    (sent.op \in ReportKeys /\ sent.err # "enumeration"
        /\ filesColl = {} /\ DOMAIN bucket = {}) =>
      /\ sent.status = 200
      /\ sent.body = EmptyReport(sent.op)

\* C14: whenever no request is in flight, every document of the files
\* collection names a file that exists in storage.
C14_EveryDocumentHasItsFile ==
    Quiescent => \A d \in filesColl : d.fileName \in DOMAIN bucket

\* The lookup of the delete request in slot r returns in this step, and the
\* files collection holds no document of the id it asks for.
LookupOfUnknownId(r) ==
    /\ reqs[r] # Idle /\ reqs[r].op = "delete" /\ reqs[r].pc = "get"
    /\ ~\E d \in filesColl : d.id = reqs[r].fileId
    /\ reqs'[r] # reqs[r]

\* The delete request in slot r resumes in this step with a lookup that
\* found no document.
ResumesWithoutDocument(r) ==
    /\ reqs[r] # Idle /\ reqs[r].op = "delete" /\ reqs[r].pc = "got"
    /\ ~reqs[r].found
    /\ reqs'[r] # reqs[r]

\* The step leaves the storage, the collections and the cache as they were.
StoresAndCacheUnchanged ==
    UNCHANGED <<bucket, filesColl, nextId, downloads, notesColl, nextNoteId,
                users, cache>>

\* The process ends in this step on the unhandled rejection of an upload:
\* the requests in flight are never answered and the cache is gone, the
\* storage and the collections stay.
ProcessEnds ==
    /\ sent.op = "upload" /\ sent.err = "unhandled"
    /\ reqs' = [s \in DOMAIN reqs |-> Idle]
    /\ sent' = NoResponse
    /\ cache' = EmptyMap
    /\ UNCHANGED <<bucket, filesColl, nextId, downloads, notesColl, nextNoteId,
                   users>>

\* C15 as stated: a delete request for an id that has no document is
\* answered 404 and changes nothing: its lookup hands the handler "no
\* document", and the handler then sends 404.
C15_UnknownIdAnswered404 ==
    [][\A r \in DOMAIN reqs :
          /\ LookupOfUnknownId(r) =>
                /\ reqs'[r] # Idle /\ reqs'[r].pc = "got" /\ ~reqs'[r].found
                /\ StoresAndCacheUnchanged
          /\ ResumesWithoutDocument(r) =>
                /\ reqs'[r] = Idle
                /\ sent'.op = "delete" /\ sent'.status = 404
                /\ sent'.locals.fileId = reqs[r].fileId
                /\ StoresAndCacheUnchanged]_vars

\* C15, amended: a delete request for an id that has no document is
\* answered 404, or 500 when the lookup itself fails, and no step of it
\* changes the storage, the collections or the cache; it is left
\* unanswered only when the process ends first on the unhandled rejection
\* of an upload, which takes the cache with it.
C15_UnknownId404OrLookupFailure ==
    [][\A r \in DOMAIN reqs :
          /\ (reqs[r] = Idle /\ reqs'[r] # Idle /\ reqs'[r].op = "delete") =>
                StoresAndCacheUnchanged
          /\ LookupOfUnknownId(r) =>
                \/ ProcessEnds
                \/ /\ \/ /\ reqs'[r] # Idle /\ reqs'[r].pc = "got"
                         /\ ~reqs'[r].found
                         /\ sent' = NoResponse
                      \/ /\ reqs'[r] = Idle
                         /\ sent'.op = "delete" /\ sent'.status = 500
                         /\ sent'.err = "delete"
                   /\ StoresAndCacheUnchanged
          /\ ResumesWithoutDocument(r) =>
                \/ ProcessEnds
                \/ /\ reqs'[r] = Idle
                   /\ sent'.op = "delete" /\ sent'.status = 404
                   /\ sent'.locals.fileId = reqs[r].fileId
                   /\ StoresAndCacheUnchanged]_vars

\* C15 happens: a 404 from the delete handler with a value cached under
\* "files", for an id whose document was added between the lookup and the
\* answer.
C15_Witness ==
    /\ sent.op = "delete" /\ sent.status = 404
    /\ \E d \in filesColl : d.id = sent.locals.fileId
    /\ CacheHas(cache, "files")

\* C16: an upload whose number of files differs from the number of names
\* supplied with it is answered 400, in the step that takes the request: no
\* task is started, and the storage, the collections and the cache are as
\* they were.
C16_MismatchedUploadStoresNothing ==
    [][(sent'.op = "upload" /\ sent'.locals.files # sent'.locals.fileNames) =>
          /\ sent'.status = 400
          /\ UNCHANGED <<bucket, filesColl, nextId, downloads, notesColl,
                         nextNoteId, users, cache, reqs>>]_vars

\* The notes a cached list holds.
CachedNotes == {JSONparse(cache["notes"]).notes[i] :
                   i \in 1..Len(JSONparse(cache["notes"]).notes)}

\* C13: whenever the key 'notes' is cached and no request is in flight, the
\* cached list holds exactly the notes of the database, each once.
C13_CachedNotesAreTheNotes ==
    (Quiescent /\ CacheHas(cache, "notes")) =>
      /\ JSONparses(cache["notes"])
      /\ CachedNotes = notesColl
      /\ Len(JSONparse(cache["notes"]).notes) = Cardinality(notesColl)

\* C17: the middleware calls next() when the header is present and the
\* token it carries verifies, and then sends nothing; in every other case
\* it sends 401 and does not call next(); it never does both or neither.
C17_NextOnlyForVerifiedToken ==
    [][\A r \in DOMAIN reqs :
          /\ \A authHeader \in AuthHeaders :
                VerifyStart(r, authHeader) =>
                    IF authHeader = NoHeader
                    THEN /\ sent'.status = 401 /\ sent'.locals.next = 0
                         /\ reqs' = reqs
                    ELSE /\ sent' = NoResponse
                         /\ reqs'[r].token = TokenOf(authHeader)
          /\ \A ok \in BOOLEAN :
                VerifyDone(r, ok) =>
                    /\ reqs'[r] = Idle
                    /\ sent'.op = "verifyIdToken"
                    /\ IF ok /\ reqs[r].token \in ValidTokens
                       THEN sent'.locals.next = 1 /\ sent'.status = 0
                       ELSE sent'.locals.next = 0 /\ sent'.status = 401]_vars

\* C17 happens: next() has been called for a verified token.
C17_Witness ==
    /\ sent.op = "verifyIdToken" /\ sent.status = 0
    /\ sent.locals.next = 1 /\ sent.locals.user \in ValidTokens

\* The login request in slot r has been answered in this step.
AuthAnswered(r) ==
    /\ reqs[r] # Idle /\ reqs[r].op = "authenticate"
    /\ reqs'[r] = Idle

\* C18 as stated: authenticated:true is sent exactly when some user document
\* has the given username and the supplied password; otherwise 401, or 500
\* when the lookup fails.
C18_AnyMatchingDocument ==
    [][\A r \in DOMAIN reqs : \A ok \in BOOLEAN :
          (AuthAnswered(r) /\ AuthQuery(r, ok)) =>
             IF ~ok THEN sent'.status = 500
             ELSE IF \E u \in users : /\ u.username = reqs[r].username
                                     /\ u.password = reqs[r].password
             THEN sent'.status = 200 /\ sent'.body = AuthBody(TRUE)
             ELSE sent'.status = 401]_vars

\* C18, amended: authenticated:true is sent exactly when a user document
\* with the given username exists and the first such document, the one the
\* query returns, has the supplied password; otherwise 401, or 500 when the
\* lookup fails; the stores and the cache are never changed.
C18_FirstMatchingDocument ==
    [][\A r \in DOMAIN reqs :
          /\ \A username \in Usernames, password \in Passwords :
                AuthStart(r, username, password) =>
                    UNCHANGED <<bucket, filesColl, nextId, downloads, notesColl,
                                nextNoteId, users, cache>>
          /\ \A ok \in BOOLEAN :
                (AuthAnswered(r) /\ AuthQuery(r, ok)) =>
                   /\ UNCHANGED <<bucket, filesColl, nextId, downloads, notesColl,
                                  nextNoteId, users, cache>>
                   /\ IF ~ok THEN sent'.status = 500
                      ELSE IF /\ \E u \in users : u.username = reqs[r].username
                              /\ FirstUser(reqs[r].username).password = reqs[r].password
                      THEN sent'.status = 200 /\ sent'.body = AuthBody(TRUE)
                      ELSE sent'.status = 401 /\ sent'.body = AuthBody(FALSE)]_vars

\* C18 happens: a login is refused although a later document of the same
\* username holds the supplied password.
C18_Witness ==
    /\ sent.op = "authenticate" /\ sent.status = 401
    /\ \E u \in users : /\ u.username = sent.locals.username
                        /\ u.password = sent.locals.password
====
